---- MODULE Spec2Model ----
(***************************************************************************)
(* Model of geo_processor.py: the GEODataProcessor methods that work on    *)
(* the sample-metadata table (extract_metadata, filter_samples_by_criteria,*)
(* get_unique_values, rename_supplementary_files,                          *)
(* generate_dataset_summary), the batch driver process_multiple_datasets   *)
(* and the single-dataset workflow analyze_geo_dataset.                    *)
(*                                                                         *)
(* Strings are sequences of one-character strings.  A cell of the          *)
(* DataFrame is a record [na, s]: na is TRUE for a missing value (NaN),    *)
(* otherwise s is the string.  A DataFrame is a record [columns, rows];    *)
(* a row is [index, cells] with cells a function from column name to cell. *)
(* A call either returns a value or raises: Return(v) / Raise(e).          *)
(***************************************************************************)
EXTENDS Integers, Sequences, FiniteSets, TLC

VARIABLES
    metadata_df,   \* table handed to a GEODataProcessor method (SpecTable)
    call,          \* the method call made on it: name and arguments
    ret,           \* what the call did: Return(value) or Raise(error)
    gse,           \* the GSE object a method or workflow works on
    \* rename_supplementary_files (SpecRename)
    row_i,         \* position of "for index, row in metadata_df.iterrows()"
    renamed_files, \* dict: original filename -> new filename
    source_files,  \* names of the files present in source_dir
    output_files,  \* files in output_dir: new filename -> name of the file copied
    row_locals,    \* the loop body's local variables after the last iteration
    \* process_multiple_datasets and analyze_geo_dataset (SpecBatch, SpecAnalyze)
    pc,            \* the statement the workflow is at
    gse_pos,       \* position of "for gse_id in gse_ids"
    results,       \* the batch's dict: gse_id -> result
    metadata,      \* local: the extracted metadata table
    filtered_metadata,   \* local: None or the filtered table
    supplementary_files, \* local: names of the downloaded supplementary files
    summary,       \* local: the dataset summary
    annotation,    \* local: the sample annotation table
    exc,           \* the exception in flight, None when there is none
    disk,          \* the files written under the output directories
    log,           \* the lines written to the logger
    batch_tally    \* successful / failed, as counted after the loop

rename_vars == <<row_i, renamed_files, source_files, output_files, row_locals>>

workflow_locals == <<metadata, filtered_metadata, supplementary_files, summary, annotation>>

workflow_vars == <<pc, gse_pos, results, workflow_locals, exc, disk, log, batch_tally>>

vars == <<metadata_df, call, ret, gse, rename_vars, workflow_vars>>

\* ------------------------------------------------------------------ bounds
MaxRows == 2
MaxReq == 2
MaxRenameRows == 2
MaxIds == 2

\* ------------------------------------------------------------- basic values
Range(f) == {f[i] : i \in DOMAIN f}

SeqsUpTo(S, n) == UNION {[1..k -> S] : k \in 0..n}

NaN == [na |-> TRUE, s |-> <<>>]

Str(s) == [na |-> FALSE, s |-> s]

notna(v) == ~v.na

Return(v) == [raised |-> FALSE, value |-> v]

Raise(e) == [raised |-> TRUE, error |-> e]

\* Optional[...]: None or a value
None == [some |-> FALSE]

Some(v) == [some |-> TRUE, v |-> v]

\* ------------------------------------------------------------ regex search
\* str.lower() on one character
lower(c) ==
    CASE c = "A" -> "a"
      [] c = "B" -> "b"
      [] OTHER -> c

\* A pattern is a sequence of atoms: a literal character, "." (any
\* character) or "(" (an unbalanced group: re.compile raises re.error).
re_compiles(pattern) == \A j \in DOMAIN pattern : pattern[j] # "("

atom_matches(atom, c, case) ==
    \/ atom = "."
    \/ IF case THEN atom = c ELSE lower(atom) = lower(c)

\* re.search: the pattern matches at some offset of the string
re_search(pattern, s, case) ==
    \E off \in 0..(Len(s) - Len(pattern)) :
        \A j \in 1..Len(pattern) : atom_matches(pattern[j], s[off + j], case)

\* str.contains with na=True: a missing value counts as a match
str_contains_na_true(v, pattern, case) ==
    IF notna(v) THEN re_search(pattern, v.s, case) ELSE TRUE

\* Series.str.contains(pattern, case=case, na=False, regex=True) on one cell
str_contains(v, pattern, case) ==
    IF notna(v) THEN re_search(pattern, v.s, case) ELSE FALSE

\* ------------------------------------------------------------- DataFrame
\* df[cols]: projection on a list of column names
project(df, cols) ==
    [columns |-> cols,
     rows |-> [i \in DOMAIN df.rows |->
                 [index |-> df.rows[i].index,
                  cells |-> [c \in Range(cols) |-> df.rows[i].cells[c]]]]]

\* df[mask]: the rows whose mask is True, in order
\* (mask is a boolean Series aligned with the rows)
RECURSIVE mask_rows(_, _, _)
mask_rows(rows, mask, i) ==
    IF i > Len(rows) THEN <<>>
    ELSE (IF mask[i] THEN <<rows[i]>> ELSE <<>>) \o mask_rows(rows, mask, i + 1)

\* ------------------------------------------------------- extract_metadata
\* extract_metadata with the projection done even when no requested column exists
extract_metadata_always_projects(df, selected_columns) ==
    IF ~selected_columns.some \/ selected_columns.v = <<>>
    THEN [table |-> df, selected |-> FALSE]
    ELSE LET available_cols == SelectSeq(selected_columns.v, LAMBDA c : c \in Range(df.columns))
             missing_cols == SelectSeq(selected_columns.v, LAMBDA c : c \notin Range(df.columns))
         IN  [table |-> project(df, available_cols),
              selected |-> TRUE,
              available_cols |-> available_cols,
              missing_cols |-> missing_cols]

\* selected_columns is None or Some(list of names); available_cols and
\* missing_cols are the two lists the method computes and logs.
\* "if selected_columns:" is false for None and for the empty list.
extract_metadata(df, selected_columns) ==
    IF ~selected_columns.some \/ selected_columns.v = <<>>
    THEN [table |-> df, selected |-> FALSE]
    ELSE LET available_cols == SelectSeq(selected_columns.v, LAMBDA c : c \in Range(df.columns))
             missing_cols == SelectSeq(selected_columns.v, LAMBDA c : c \notin Range(df.columns))
         IN  [table |-> IF available_cols # <<>> THEN project(df, available_cols) ELSE df,
              selected |-> TRUE,
              available_cols |-> available_cols,
              missing_cols |-> missing_cols]

\* --------------------------------------------- filter_samples_by_criteria
filter_samples_by_criteria(df, filter_column, filter_pattern, case_sensitive) ==
    IF filter_column \notin Range(df.columns)
    THEN Raise([type |-> "ValueError", column |-> filter_column,
                available_cols |-> df.columns])
    ELSE IF ~re_compiles(filter_pattern)
    THEN Raise([type |-> "re.error", pattern |-> filter_pattern])
    ELSE LET mask == [i \in DOMAIN df.rows |->
                        str_contains(df.rows[i].cells[filter_column],
                                     filter_pattern, case_sensitive)]
         IN  Return([columns |-> df.columns, rows |-> mask_rows(df.rows, mask, 1)])

\* ------------------------------------------------------ get_unique_values
\* value_counts(dropna=False): NaN is counted as a value of its own
value_counts_keeps_nan(df, column) ==
    LET present == {df.rows[i].cells[column] : i \in DOMAIN df.rows}
    IN  [v \in present |->
            Cardinality({i \in DOMAIN df.rows : df.rows[i].cells[column] = v})]

\* Series.value_counts(): occurrences of each value, NaN dropped
value_counts(df, column) ==
    LET present == {df.rows[i].cells[column] : i \in DOMAIN df.rows} \ {NaN}
    IN  [v \in present |->
            Cardinality({i \in DOMAIN df.rows : df.rows[i].cells[column] = v})]

get_unique_values(df, column) ==
    IF column \notin Range(df.columns)
    THEN Raise([type |-> "ValueError", column |-> column])
    ELSE Return(value_counts(df, column))

\* ------------------------------------------- tables and arguments tried
TableColumns == {<<"title">>, <<"title", "source_name_ch1">>}

RequestedNames == {"title", "source_name_ch1", "nonexistent"}

SampleCells == {NaN, Str(<<>>), Str(<<"A", "b">>), Str(<<"a">>)}

Patterns == {<<>>, <<"a">>, <<"A", "b">>, <<".", "b">>, <<"(">>}

TablesOver(cols, cells, n) ==
    UNION {{[columns |-> cols,
             rows |-> [i \in 1..k |-> [index |-> i, cells |-> rs[i]]]] :
                rs \in [1..k -> [Range(cols) -> cells]]} : k \in 0..n}

\* the empty dict
EmptyDict == [k \in {} |-> k]

DictSet(d, key, val) == [k \in DOMAIN d \cup {key} |-> IF k = key THEN val ELSE d[k]]

RenameIdle ==
    /\ row_i = 0
    /\ renamed_files = EmptyDict
    /\ source_files = {}
    /\ output_files = EmptyDict
    /\ row_locals = None

WorkflowIdle ==
    /\ pc = "idle"
    /\ gse_pos = 0
    /\ results = EmptyDict
    /\ metadata = None
    /\ filtered_metadata = None
    /\ supplementary_files = <<>>
    /\ summary = None
    /\ annotation = None
    /\ exc = None
    /\ disk = {}
    /\ log = <<>>
    /\ batch_tally = None

\* ------------------------------------------------ SpecTable: the methods
InitTable ==
    /\ metadata_df \in UNION {TablesOver(cols, SampleCells, MaxRows) : cols \in TableColumns}
    /\ call = [op |-> "none"]
    /\ ret = None
    /\ gse = None
    /\ RenameIdle
    /\ WorkflowIdle

CallExtractMetadata ==
    /\ call.op = "none"
    /\ \E selected_columns \in {None} \cup {Some(l) : l \in SeqsUpTo(RequestedNames, MaxReq)} :
          /\ call' = [op |-> "extract_metadata", selected_columns |-> selected_columns]
          /\ ret' = Return(extract_metadata(metadata_df, selected_columns))
    /\ UNCHANGED <<metadata_df, gse, rename_vars, workflow_vars>>

CallFilterSamples ==
    /\ call.op = "none"
    /\ \E filter_column \in RequestedNames, filter_pattern \in Patterns,
          case_sensitive \in BOOLEAN :
          /\ call' = [op |-> "filter_samples_by_criteria", filter_column |-> filter_column,
                       filter_pattern |-> filter_pattern, case_sensitive |-> case_sensitive]
          /\ ret' = filter_samples_by_criteria(metadata_df, filter_column,
                                               filter_pattern, case_sensitive)
    /\ UNCHANGED <<metadata_df, gse, rename_vars, workflow_vars>>

CallGetUniqueValues ==
    /\ call.op = "none"
    /\ \E column \in RequestedNames :
          /\ call' = [op |-> "get_unique_values", column |-> column]
          /\ ret' = get_unique_values(metadata_df, column)
    /\ UNCHANGED <<metadata_df, gse, rename_vars, workflow_vars>>

NextTable == CallExtractMetadata \/ CallFilterSamples \/ CallGetUniqueValues

SpecTable == InitTable /\ [][NextTable]_vars

\* ---------------------------------------------- rename_supplementary_files
\* str.replace(' ', '_').replace('/', '_')
sanitize(s) == [i \in DOMAIN s |-> IF s[i] = " " \/ s[i] = "/" THEN "_" ELSE s[i]]

\* url.split('/')[-1]
last_segment(s) ==
    LET slashes == {i \in DOMAIN s : s[i] = "/"}
    IN  IF slashes = {} THEN s
        ELSE LET last == CHOOSE i \in slashes : \A j \in slashes : j <= i
             IN  SubSeq(s, last + 1, Len(s))

\* 'supplementary_file' in col, on the column names of the tables tried
contains_supplementary_file(col) ==
    col \in {"supplementary_file", "supplementary_file_1", "supplementary_file_2"}

\* a scan that takes the first supplementary_file column whatever its value
find_supp_file_url_any_value(df, row) ==
    LET hits == {j \in DOMAIN df.columns : contains_supplementary_file(df.columns[j])}
    IN  IF hits = {} THEN None
        ELSE LET first == CHOOSE j \in hits : \A k \in hits : j <= k
             IN  Some(row.cells[df.columns[first]].s)

\* the "for col in row.index" scan: the first column, in column order, whose
\* name contains 'supplementary_file' and whose value is not NaN
find_supp_file_url(df, row) ==
    LET hits == {j \in DOMAIN df.columns :
                    /\ contains_supplementary_file(df.columns[j])
                    /\ notna(row.cells[df.columns[j]])}
    IN  IF hits = {} THEN None
        ELSE LET first == CHOOSE j \in hits : \A k \in hits : j <= k
             IN  Some(row.cells[df.columns[first]].s)

\* the identifier chosen for a row (needs geo_accession already read)
row_identifier(df, row, identifier_column, geo_accession) ==
    IF identifier_column \in Range(df.columns) /\ notna(row.cells[identifier_column])
    THEN sanitize(row.cells[identifier_column].s)
    ELSE geo_accession

\* f"{identifier}-{original_filename}"
new_filename_of(identifier, original_filename) == identifier \o <<"-">> \o original_filename

\* Path.exists() of source_dir / original_filename: joining the empty name
\* gives source_dir itself, which exists
path_exists(files, original_filename) == original_filename = <<>> \/ original_filename \in files

\* shutil.copy2(original_path, new_path): copied says whether it returned
\* (it raises otherwise); the file appears in output_dir when it returned
copy2(files, copied, original_filename, new_filename) ==
    IF copied THEN DictSet(files, new_filename, original_filename) ELSE files

\* a rename mapping that is written whether or not the copy returned
record_rename_before_copy(renamed, copied, original_filename, new_filename) ==
    DictSet(renamed, original_filename, new_filename)

\* renamed_files[original_filename] = new_filename, the statement after
\* shutil.copy2: reached only when the copy returned
record_rename(renamed, copied, original_filename, new_filename) ==
    IF copied THEN DictSet(renamed, original_filename, new_filename) ELSE renamed

\* entry of rename_supplementary_files, up to the loop
RenameEnter ==
    /\ call.op = "rename_supplementary_files"
    /\ ret = None
    /\ row_i = 0
    /\ row_i' = 1
    /\ renamed_files' = EmptyDict
    /\ log' = Append(log, [line |-> "Renaming supplementary files"])
    /\ UNCHANGED <<metadata_df, call, ret, gse, source_files, output_files, row_locals,
                   pc, gse_pos, results, workflow_locals, exc, disk, batch_tally>>

\* One iteration of the loop over the rows, try/except included.  copy_ok is
\* whether shutil.copy2 succeeds (it raises otherwise; copying the directory
\* itself always raises).
RenameRow ==
    /\ call.op = "rename_supplementary_files"
    /\ ret = None
    /\ row_i >= 1
    /\ row_i <= Len(metadata_df.rows)
    /\ LET row == metadata_df.rows[row_i]
           df == metadata_df
       IN  IF "geo_accession" \notin Range(df.columns)
           THEN \* row['geo_accession'] raises KeyError, caught by the row's except
                /\ row_locals' = Some([index |-> row.index, outcome |-> "error",
                                       error |-> "KeyError"])
                /\ log' = Append(log, [line |-> "Error renaming file", index |-> row.index,
                                       error |-> "KeyError"])
                /\ UNCHANGED <<renamed_files, output_files>>
           ELSE LET geo_accession == row.cells["geo_accession"].s
                    identifier == row_identifier(df, row, call.identifier_column, geo_accession)
                    supp_file_url == find_supp_file_url(df, row)
                IN  IF ~supp_file_url.some \/ supp_file_url.v = <<>>
                    THEN /\ row_locals' = Some([index |-> row.index, outcome |-> "no_url",
                                                geo_accession |-> geo_accession,
                                                identifier |-> identifier,
                                                supp_file_url |-> supp_file_url])
                         /\ UNCHANGED <<renamed_files, output_files, log>>
                    ELSE LET original_filename == last_segment(supp_file_url.v)
                             new_filename == new_filename_of(identifier, original_filename)
                             base == [index |-> row.index, geo_accession |-> geo_accession,
                                      identifier |-> identifier,
                                      supp_file_url |-> supp_file_url,
                                      original_filename |-> original_filename]
                         IN  IF ~path_exists(source_files, original_filename)
                             THEN /\ row_locals' = Some(base @@ [outcome |-> "not_found"])
                                  /\ log' = Append(log, [line |-> "Original file not found",
                                                         original_filename |-> original_filename])
                                  /\ UNCHANGED <<renamed_files, output_files>>
                             ELSE \E copy_ok \in BOOLEAN :
                                    LET copied == copy_ok /\ original_filename # <<>>
                                    IN  /\ output_files' = copy2(output_files, copied,
                                                                 original_filename, new_filename)
                                        /\ renamed_files' = record_rename(renamed_files, copied,
                                                                 original_filename, new_filename)
                                        /\ row_locals' = Some(base @@
                                             IF copied
                                             THEN [outcome |-> "renamed",
                                                   new_filename |-> new_filename]
                                             ELSE [outcome |-> "error", error |-> "OSError",
                                                   new_filename |-> new_filename])
                                        /\ log' = Append(log,
                                             IF copied
                                             THEN [line |-> "Renamed",
                                                   original_filename |-> original_filename,
                                                   new_filename |-> new_filename]
                                             ELSE [line |-> "Error renaming file",
                                                   index |-> row.index, error |-> "OSError"])
    /\ row_i' = row_i + 1
    /\ UNCHANGED <<metadata_df, call, ret, gse, source_files,
                   pc, gse_pos, results, workflow_locals, exc, disk, batch_tally>>

\* after the loop: log the number of entries and return renamed_files
RenameReturn ==
    /\ call.op = "rename_supplementary_files"
    /\ ret = None
    /\ row_i = Len(metadata_df.rows) + 1
    /\ log' = Append(log, [line |-> "Renamed files",
                           count |-> Cardinality(DOMAIN renamed_files)])
    /\ ret' = Return(renamed_files)
    /\ UNCHANGED <<metadata_df, call, gse, rename_vars,
                   pc, gse_pos, results, workflow_locals, exc, disk, batch_tally>>

\* the tables, directory contents and identifier columns tried
RenameColumns ==
    {<<"geo_accession", "source_name_ch1", "supplementary_file_1">>,
     <<"geo_accession", "supplementary_file_1", "supplementary_file_2">>,
     <<"source_name_ch1", "supplementary_file_1">>}

FileA == <<"a">>

FileB == <<"b">>

Digits == <<"1", "2", "3", "4">>

Accession(i) == <<"G", Digits[i]>>

RenameCells(col, i) ==
    CASE col = "geo_accession" -> {Str(Accession(i))}
      [] col = "source_name_ch1" ->
            {NaN, Str(<<>>), Str(<<"l", " ", "t">>), Str(<<"a", "/", "b">>),
             Str(<<"l", " ", " ", "\t", "t">>)}
      [] col = "supplementary_file_1" ->
            {NaN, Str(<<>>), Str(<<"x", "/">> \o FileA), Str(<<"x", "/">> \o FileB)}
      [] col = "supplementary_file_2" -> {NaN, Str(<<"x", "/">> \o FileB), Str(<<"x", "/">>)}

RenameRowsAt(cols, i) ==
    {[index |-> i, cells |-> c] :
        c \in {f \in [Range(cols) -> UNION {RenameCells(col, i) : col \in Range(cols)}] :
                    \A col \in Range(cols) : f[col] \in RenameCells(col, i)}}

RECURSIVE RenameRowSeqs(_, _)
RenameRowSeqs(cols, k) ==
    IF k = 0 THEN {<<>>}
    ELSE {Append(rs, r) : rs \in RenameRowSeqs(cols, k - 1), r \in RenameRowsAt(cols, k)}

RenameTables(cols, n) ==
    {[columns |-> cols, rows |-> rs] : rs \in UNION {RenameRowSeqs(cols, k) : k \in 0..n}}

InitRename ==
    /\ metadata_df \in UNION {RenameTables(cols, MaxRenameRows) : cols \in RenameColumns}
    /\ call = [op |-> "rename_supplementary_files", identifier_column |-> "source_name_ch1"]
    /\ ret = None
    /\ gse = None
    /\ row_i = 0
    /\ renamed_files = EmptyDict
    /\ source_files = {FileA}
    /\ output_files = EmptyDict
    /\ row_locals = None
    /\ WorkflowIdle

NextRename == RenameEnter \/ RenameRow \/ RenameReturn

SpecRename == InitRename /\ [][NextRename]_vars

\* ------------------------------------------------ generate_dataset_summary
DescriptiveFields ==
    <<"title", "summary", "overall_design", "submission_date", "last_update_date", "pubmed_id">>

PlatformFields == <<"title", "technology", "organism">>

\* metadata.get(key, ['N/A'])[0]: the default only replaces a missing key;
\* [0] on an empty list raises IndexError
get_first(md, key) ==
    IF key \notin DOMAIN md THEN Return("N/A")
    ELSE IF md[key] = <<>> THEN Raise([type |-> "IndexError"])
    ELSE Return(md[key][1])

\* the summary dict (without writing it to output_file)
generate_dataset_summary(g, df) ==
    LET descr == [f \in Range(DescriptiveFields) |-> get_first(g.metadata, f)]
        plat == [p \in DOMAIN g.gpls |->
                    [f \in Range(PlatformFields) |-> get_first(g.gpls[p].metadata, f)]]
    IN  IF \/ \E f \in Range(DescriptiveFields) : descr[f].raised
           \/ \E p \in DOMAIN g.gpls : \E f \in Range(PlatformFields) : plat[p][f].raised
        THEN Raise([type |-> "IndexError"])
        ELSE Return(
               [gse_id |-> g.name,
                platform_count |-> Cardinality(DOMAIN g.gpls),
                sample_count |-> Len(df.rows),
                supplementary_file_count |-> Len(g.supplementary_files),
                columns_in_metadata |-> df.columns]
               @@ [f \in Range(DescriptiveFields) |-> descr[f].value]
               @@ (IF DOMAIN g.gpls # {}
                   THEN [platforms |->
                           [p \in DOMAIN g.gpls |->
                              [f \in Range(PlatformFields) |-> plat[p][f].value]]]
                   ELSE EmptyDict)
               @@ (IF "source_name_ch1" \in Range(df.columns)
                   THEN [sample_type_distribution |-> value_counts(df, "source_name_ch1")]
                   ELSE EmptyDict))

\* the GSE objects tried: every descriptive field missing, present with an
\* empty value list, or present with a value; zero or one platform
DictsOver(keys, vals) == UNION {[d -> vals] : d \in SUBSET keys}

ValueLists == {<<>>, <<"v">>}

SummaryTables ==
    {[columns |-> <<"title">>, rows |-> <<>>],
     [columns |-> <<"title", "source_name_ch1">>,
      rows |-> <<[index |-> 1, cells |-> [title |-> Str(<<"a">>), source_name_ch1 |-> NaN]],
                 [index |-> 2, cells |-> [title |-> NaN, source_name_ch1 |-> Str(<<"l">>)]]>>]}

SummaryPlatforms ==
    {EmptyDict} \cup {[p \in {"GPL1"} |-> [metadata |-> m]] :
                        m \in DictsOver({"title", "organism"}, ValueLists)}

InitSummary ==
    /\ gse \in {[name |-> "GSE1", metadata |-> m, gpls |-> g,
                  supplementary_files |-> <<>>, phenotype_data |-> t] :
                    m \in DictsOver(Range(DescriptiveFields), ValueLists),
                    g \in SummaryPlatforms, t \in SummaryTables}
    /\ metadata_df = gse.phenotype_data
    /\ call = [op |-> "none"]
    /\ ret = None
    /\ RenameIdle
    /\ WorkflowIdle

CallGenerateSummary ==
    /\ call.op = "none"
    /\ call' = [op |-> "generate_dataset_summary"]
    /\ ret' = generate_dataset_summary(gse, metadata_df)
    /\ UNCHANGED <<metadata_df, gse, rename_vars, workflow_vars>>

NextSummary == CallGenerateSummary

SpecSummary == InitSummary /\ [][NextSummary]_vars

\* --------------------------------------------------- the workflows' stages
\* The remote GEO repository: what GEOparse.get_GEO finds for an accession.
TableA ==
    [columns |-> <<"geo_accession", "title", "source_name_ch1">>,
     rows |-> <<[index |-> 1, cells |-> [geo_accession |-> Str(Accession(1)),
                                         title |-> Str(<<"A", "b">>),
                                         source_name_ch1 |-> Str(<<"l">>)]],
                [index |-> 2, cells |-> [geo_accession |-> Str(Accession(2)),
                                         title |-> NaN,
                                         source_name_ch1 |-> NaN]]>>]

TableB ==
    [columns |-> <<"cell type">>,
     rows |-> <<[index |-> 1, cells |-> [c \in {"cell type"} |-> Str(<<"a">>)]]>>]

TableC == [columns |-> <<"title">>, rows |-> <<>>]

Remote ==
    [id \in {"GSE1", "GSE2", "GSE3"} |->
        CASE id = "GSE1" ->
               [name |-> id,
                metadata |-> [f \in Range(DescriptiveFields) |-> <<"v">>],
                gpls |-> [p \in {"GPL1"} |->
                            [metadata |-> [f \in Range(PlatformFields) |-> <<"v">>]]],
                supplementary_files |-> <<<<"x", "/">> \o FileA>>,
                phenotype_data |-> TableA]
          [] id = "GSE2" ->
               [name |-> id,
                metadata |-> [f \in {"title"} |-> <<"v">>],
                gpls |-> EmptyDict,
                supplementary_files |-> <<>>,
                phenotype_data |-> TableB]
          [] id = "GSE3" ->
               [name |-> id,
                metadata |-> [f \in {"title", "summary"} |->
                                IF f = "title" THEN <<"v">> ELSE <<>>],
                gpls |-> EmptyDict,
                supplementary_files |-> <<>>,
                phenotype_data |-> TableC]]

\* GEOparse.get_GEO(geo=gse_id, destdir=destdir): the record, or an error
\* (unknown accession, network failure)
get_GEO(gse_id) ==
    {Raise([type |-> "DownloadError"])}
        \cup (IF gse_id \in DOMAIN Remote THEN {Return(Remote[gse_id])} ELSE {})

\* download_geo_dataset after get_GEO answered: the log line with the title
\* indexes the title list; any exception is logged and re-raised
download_geo_dataset(got) ==
    IF got.raised THEN got
    ELSE IF get_first(got.value.metadata, "title").raised
    THEN Raise([type |-> "IndexError"])
    ELSE got

\* download_supplementary_files: the names of the files whose download
\* succeeded (ok[i] tells whether download i succeeds); errors are caught
\* per file
RECURSIVE downloaded_files(_, _, _)
downloaded_files(urls, ok, i) ==
    IF i > Len(urls) THEN <<>>
    ELSE (IF ok[i] THEN <<last_segment(urls[i])>> ELSE <<>>)
            \o downloaded_files(urls, ok, i + 1)

\* col.replace(' ', '_') on the column names of the tables tried
replace_space(col) == IF col = "cell type" THEN "cell_type" ELSE col

KeyColumns ==
    <<"title", "geo_accession", "source_name_ch1", "characteristics_ch1", "description",
      "supplementary_file">>

\* create_sample_annotation with the default key_columns
create_sample_annotation(df) ==
    LET available_cols == SelectSeq(KeyColumns, LAMBDA c : c \in Range(df.columns))
        annotation_df == IF available_cols # <<>> THEN project(df, available_cols) ELSE df
        old(c) == CHOOSE x \in Range(annotation_df.columns) : replace_space(x) = c
    IN  [columns |-> [i \in DOMAIN annotation_df.columns |->
                        replace_space(annotation_df.columns[i])],
         rows |-> [i \in DOMAIN annotation_df.rows |->
                     [index |-> annotation_df.rows[i].index,
                      cells |-> [c \in {replace_space(x) : x \in Range(annotation_df.columns)} |->
                                    annotation_df.rows[i].cells[old(c)]]]]]

File(dir, name) == [dir |-> dir, name |-> name]

Line(text) == [line |-> text]

\* "download" stage: processor.download_geo_dataset(gse_id)
DownloadStage(gse_id, dir, head) ==
    \E got \in get_GEO(gse_id) :
        LET r == download_geo_dataset(got)
            start == head \o <<[line |-> "Downloading GEO dataset", gse_id |-> gse_id]>>
        IN  IF r.raised
            THEN /\ log' = start \o <<[line |-> "Error downloading", gse_id |-> gse_id,
                                       error |-> r.error]>>
                 /\ exc' = Some(r.error)
                 /\ pc' = "except"
                 /\ disk' = IF got.raised THEN disk
                            ELSE disk \cup {File(dir \o <<gse_id>>, <<gse_id, "_family.soft.gz">>)}
                 /\ UNCHANGED gse
            ELSE /\ log' = start \o <<[line |-> "Successfully downloaded", gse_id |-> gse_id]>>
                 /\ gse' = r.value
                 /\ disk' = disk \cup {File(dir \o <<gse_id>>, <<gse_id, "_family.soft.gz">>)}
                 /\ pc' = "extract"
                 /\ UNCHANGED exc

\* "extract" stage: processor.extract_metadata(gse, selected_columns, output_file);
\* to_csv may fail
ExtractStage(gse_id, dir, selected_columns) ==
    \E io_ok \in BOOLEAN :
        LET r == extract_metadata(gse.phenotype_data, selected_columns) IN
        IF io_ok
        THEN /\ metadata' = Some(r.table)
             /\ disk' = disk \cup {File(dir, <<gse_id, "_metadata.tsv">>)}
             /\ log' = log \o <<Line("Extracting metadata"), Line("Metadata saved")>>
             /\ pc' = "supplementary"
             /\ UNCHANGED exc
        ELSE /\ log' = log \o <<Line("Extracting metadata")>>
             /\ exc' = Some([type |-> "OSError"])
             /\ pc' = "except"
             /\ UNCHANGED <<metadata, disk>>

\* "supplementary" stage: supplementary_files = [] and, if asked for,
\* processor.download_supplementary_files(gse, dir)
SupplementaryStage(dir, download_supplementary) ==
    IF ~download_supplementary
    THEN /\ supplementary_files' = <<>>
         /\ pc' = "filter"
         /\ UNCHANGED <<disk, log>>
    ELSE IF gse.supplementary_files = <<>>
    THEN /\ supplementary_files' = <<>>
         /\ log' = log \o <<Line("No supplementary files available")>>
         /\ pc' = "filter"
         /\ UNCHANGED disk
    ELSE \E ok \in [DOMAIN gse.supplementary_files -> BOOLEAN] :
            LET got == downloaded_files(gse.supplementary_files, ok, 1) IN
            /\ supplementary_files' = got
            /\ disk' = disk \cup {File(dir, got[i]) : i \in DOMAIN got}
            /\ log' = log \o <<Line("Downloading supplementary files")>>
            /\ pc' = "filter"

\* "filter" stage: filtered_metadata = None, then the guarded, try/except-
\* wrapped call of filter_samples_by_criteria and export of a non-empty
\* result; entered is the "if" in front of the try
FilterStage(gse_id, dir, entered, filter_pattern, filter_column) ==
    IF ~entered
    THEN /\ filtered_metadata' = None
         /\ pc' = "summary"
         /\ UNCHANGED <<disk, log>>
    ELSE LET r == filter_samples_by_criteria(metadata.v, filter_column, filter_pattern.v, FALSE)
             started == IF filter_column \in Range(metadata.v.columns)
                        THEN <<Line("Filtering samples")>> ELSE <<>>
         IN  IF r.raised
             THEN /\ filtered_metadata' = None
                  /\ log' = log \o started \o
                              <<[line |-> "Error filtering samples", error |-> r.error]>>
                  /\ pc' = "summary"
                  /\ UNCHANGED disk
             ELSE IF Len(r.value.rows) = 0
             THEN /\ filtered_metadata' = Some(r.value)
                  /\ log' = log \o started
                  /\ pc' = "summary"
                  /\ UNCHANGED disk
             ELSE \E io_ok \in BOOLEAN :
                    /\ filtered_metadata' = Some(r.value)
                    /\ pc' = "summary"
                    /\ IF io_ok
                       THEN /\ disk' = disk \cup {File(dir, <<gse_id, "_filtered_metadata.tsv">>)}
                            /\ log' = log \o started
                       ELSE /\ log' = log \o started \o
                                        <<[line |-> "Error filtering samples",
                                           error |-> [type |-> "OSError"]]>>
                            /\ UNCHANGED disk

\* "if filter_pattern": None and the empty string are false
truthy(filter_pattern) == filter_pattern.some /\ filter_pattern.v # <<>>

\* a summary stage whose failure is swallowed: the pipeline goes on to the
\* annotation stage with an empty summary
SummaryStageGoesOn(gse_id, dir) ==
    LET r == generate_dataset_summary(gse, metadata.v) IN
    /\ summary' = Some(IF r.raised THEN EmptyDict ELSE r.value)
    /\ log' = log \o <<Line("Generating dataset summary")>>
                  \o (IF r.raised THEN <<>> ELSE <<Line("Summary saved")>>)
    /\ disk' = IF r.raised THEN disk ELSE disk \cup {File(dir, <<gse_id, "_summary.json">>)}
    /\ pc' = "annotation"
    /\ UNCHANGED exc

\* "summary" stage: processor.generate_dataset_summary(gse, metadata, summary_file);
\* writing the JSON file may fail
SummaryStage(gse_id, dir) ==
    LET r == generate_dataset_summary(gse, metadata.v) IN
    IF r.raised
    THEN /\ log' = log \o <<Line("Generating dataset summary")>>
         /\ exc' = Some(r.error)
         /\ pc' = "except"
         /\ UNCHANGED <<summary, disk>>
    ELSE \E io_ok \in BOOLEAN :
            IF io_ok
            THEN /\ summary' = Some(r.value)
                 /\ disk' = disk \cup {File(dir, <<gse_id, "_summary.json">>)}
                 /\ log' = log \o <<Line("Generating dataset summary"), Line("Summary saved")>>
                 /\ pc' = "annotation"
                 /\ UNCHANGED exc
            ELSE /\ log' = log \o <<Line("Generating dataset summary")>>
                 /\ exc' = Some([type |-> "OSError"])
                 /\ pc' = "except"
                 /\ UNCHANGED <<summary, disk>>

\* "annotation" stage: processor.create_sample_annotation(metadata, output_file);
\* to_csv may fail
AnnotationStage(gse_id, dir, next) ==
    \E io_ok \in BOOLEAN :
        IF io_ok
        THEN /\ annotation' = Some(create_sample_annotation(metadata.v))
             /\ disk' = disk \cup {File(dir, <<gse_id, "_sample_annotation.tsv">>)}
             /\ log' = log \o <<Line("Creating sample annotation"),
                                Line("Sample annotation saved")>> \o next
             /\ UNCHANGED exc
        ELSE /\ log' = log \o <<Line("Creating sample annotation")>>
             /\ exc' = Some([type |-> "OSError"])
             /\ pc' = "except"
             /\ UNCHANGED <<annotation, disk>>

\* ------------------------------------------------ process_multiple_datasets
OutputBaseDir == <<"./batch_geo_analysis">>

dataset_dir(gse_id) == OutputBaseDir \o <<gse_id>>

\* success_result with the summary left out
success_result_without_summary(g, md, fmd, sf, sm, dir) ==
    [status |-> "success",
     gse_object |-> g,
     metadata |-> md,
     filtered_metadata |-> fmd,
     supplementary_files |-> sf,
     output_directory |-> dir]

\* the result stored for a dataset whose pipeline went through
success_result(g, md, fmd, sf, sm, dir) ==
    [status |-> "success",
     gse_object |-> g,
     metadata |-> md,
     filtered_metadata |-> fmd,
     supplementary_files |-> sf,
     summary |-> sm,
     output_directory |-> dir]

\* the result stored by the except clause
error_result(e) == [status |-> "error", error |-> e]

InBatch == call.op = "process_multiple_datasets"

CurrentId == call.gse_ids[gse_pos]

BatchDownload ==
    /\ InBatch /\ pc = "download" /\ gse_pos <= Len(call.gse_ids)
    /\ DownloadStage(CurrentId, dataset_dir(CurrentId),
                     log \o <<[line |-> "Processing dataset", gse_id |-> CurrentId]>>)
    /\ UNCHANGED <<metadata_df, call, ret, rename_vars, gse_pos, results, workflow_locals,
                   batch_tally>>

BatchExtract ==
    /\ InBatch /\ pc = "extract"
    /\ ExtractStage(CurrentId, dataset_dir(CurrentId), None)
    /\ UNCHANGED <<metadata_df, call, ret, gse, rename_vars, gse_pos, results,
                   filtered_metadata, supplementary_files, summary, annotation, batch_tally>>

BatchSupplementary ==
    /\ InBatch /\ pc = "supplementary"
    /\ SupplementaryStage(dataset_dir(CurrentId), call.download_supplementary)
    /\ UNCHANGED <<metadata_df, call, ret, gse, rename_vars, gse_pos, results,
                   metadata, filtered_metadata, summary, annotation, exc, batch_tally>>

BatchFilter ==
    /\ InBatch /\ pc = "filter"
    /\ FilterStage(CurrentId, dataset_dir(CurrentId),
                   truthy(call.filter_pattern) /\ call.filter_column \in Range(metadata.v.columns),
                   call.filter_pattern, call.filter_column)
    /\ UNCHANGED <<metadata_df, call, ret, gse, rename_vars, gse_pos, results,
                   metadata, supplementary_files, summary, annotation, exc, batch_tally>>

BatchSummary ==
    /\ InBatch /\ pc = "summary"
    /\ SummaryStage(CurrentId, dataset_dir(CurrentId))
    /\ UNCHANGED <<metadata_df, call, ret, gse, rename_vars, gse_pos, results,
                   metadata, filtered_metadata, supplementary_files, annotation, batch_tally>>

\* "annotation" stage and, when it went through, the storing of the result
BatchAnnotation ==
    /\ InBatch /\ pc = "annotation"
    /\ AnnotationStage(CurrentId, dataset_dir(CurrentId),
                       <<[line |-> "Successfully processed", gse_id |-> CurrentId]>>)
    /\ IF exc' = None
       THEN /\ results' = DictSet(results, CurrentId,
                             success_result(gse, metadata.v, filtered_metadata,
                                            supplementary_files, summary.v,
                                            dataset_dir(CurrentId)))
            /\ gse_pos' = gse_pos + 1
            /\ pc' = "download"
       ELSE UNCHANGED <<results, gse_pos>>
    /\ UNCHANGED <<metadata_df, call, ret, gse, rename_vars, metadata, filtered_metadata,
                   supplementary_files, summary, batch_tally>>

\* no except clause: the exception leaves process_multiple_datasets
BatchExceptAborts ==
    /\ InBatch /\ pc = "except"
    /\ ret' = Raise(exc.v)
    /\ exc' = None
    /\ pc' = "done"
    /\ UNCHANGED <<metadata_df, call, gse, rename_vars, gse_pos, results, workflow_locals,
                   disk, log, batch_tally>>

\* the loop's "except Exception as e" clause
BatchExcept ==
    /\ InBatch /\ pc = "except"
    /\ results' = DictSet(results, CurrentId, error_result(exc.v))
    /\ log' = log \o <<[line |-> "Error processing", gse_id |-> CurrentId, error |-> exc.v]>>
    /\ exc' = None
    /\ gse_pos' = gse_pos + 1
    /\ pc' = "download"
    /\ UNCHANGED <<metadata_df, call, ret, gse, rename_vars, workflow_locals, disk, batch_tally>>

\* after the loop: the batch summary, and the return
BatchFinish ==
    /\ InBatch /\ pc = "download" /\ gse_pos = Len(call.gse_ids) + 1
    /\ LET successful == Cardinality({id \in DOMAIN results : results[id].status = "success"})
           failed == Cardinality(DOMAIN results) - successful
       IN  batch_tally' = Some([successful |-> successful, failed |-> failed,
                                total |-> Len(call.gse_ids)])
    /\ log' = log \o <<Line("Batch processing completed")>>
    /\ ret' = Return(results)
    /\ pc' = "done"
    /\ UNCHANGED <<metadata_df, call, gse, rename_vars, gse_pos, results, workflow_locals,
                   exc, disk>>

DatasetIds == {"GSE1", "GSE2", "GSE3"}

FilterPatterns == {None, Some(<<"a">>), Some(<<"(">>)}

InitBatch ==
    /\ \E ids \in SeqsUpTo(DatasetIds, MaxIds), ds \in BOOLEAN, fp \in FilterPatterns :
          call = [op |-> "process_multiple_datasets", gse_ids |-> ids,
                  download_supplementary |-> ds, filter_pattern |-> fp,
                  filter_column |-> "title"]
    /\ metadata_df = None
    /\ ret = None
    /\ gse = None
    /\ RenameIdle
    /\ pc = "download"
    /\ gse_pos = 1
    /\ results = EmptyDict
    /\ metadata = None
    /\ filtered_metadata = None
    /\ supplementary_files = <<>>
    /\ summary = None
    /\ annotation = None
    /\ exc = None
    /\ disk = {}
    /\ log = <<>>
    /\ batch_tally = None

NextBatch ==
    \/ BatchDownload
    \/ BatchExtract
    \/ BatchSupplementary
    \/ BatchFilter
    \/ BatchSummary
    \/ BatchAnnotation
    \/ BatchExcept
    \/ BatchFinish

SpecBatch == InitBatch /\ [][NextBatch]_vars

\* ------------------------------------------------------ analyze_geo_dataset
AnalyzeOutputDir == <<"./geo_analysis">>

InAnalyze == call.op = "analyze_geo_dataset"

\* the dict analyze_geo_dataset returns
analyze_result(gse_id, g, md, fmd, sf, sm, an, dir) ==
    [gse_id |-> gse_id,
     gse_object |-> g,
     metadata |-> md,
     filtered_metadata |-> fmd,
     supplementary_files |-> sf,
     summary |-> sm,
     annotation |-> an,
     output_directory |-> dir]

AnalyzeDownload ==
    /\ InAnalyze /\ pc = "download"
    /\ DownloadStage(call.gse_id, AnalyzeOutputDir,
                     log \o <<[line |-> "Starting complete analysis", gse_id |-> call.gse_id]>>)
    /\ UNCHANGED <<metadata_df, call, ret, rename_vars, gse_pos, results, workflow_locals,
                   batch_tally>>

AnalyzeExtract ==
    /\ InAnalyze /\ pc = "extract"
    /\ ExtractStage(call.gse_id, AnalyzeOutputDir, call.selected_columns)
    /\ UNCHANGED <<metadata_df, call, ret, gse, rename_vars, gse_pos, results,
                   filtered_metadata, supplementary_files, summary, annotation, batch_tally>>

AnalyzeSupplementary ==
    /\ InAnalyze /\ pc = "supplementary"
    /\ SupplementaryStage(AnalyzeOutputDir, call.download_supplementary)
    /\ UNCHANGED <<metadata_df, call, ret, gse, rename_vars, gse_pos, results,
                   metadata, filtered_metadata, summary, annotation, exc, batch_tally>>

\* the filter is entered on "if filter_pattern" alone
AnalyzeFilter ==
    /\ InAnalyze /\ pc = "filter"
    /\ FilterStage(call.gse_id, AnalyzeOutputDir, truthy(call.filter_pattern),
                   call.filter_pattern, call.filter_column)
    /\ UNCHANGED <<metadata_df, call, ret, gse, rename_vars, gse_pos, results,
                   metadata, supplementary_files, summary, annotation, exc, batch_tally>>

AnalyzeSummary ==
    /\ InAnalyze /\ pc = "summary"
    /\ SummaryStage(call.gse_id, AnalyzeOutputDir)
    /\ UNCHANGED <<metadata_df, call, ret, gse, rename_vars, gse_pos, results,
                   metadata, filtered_metadata, supplementary_files, annotation, batch_tally>>

\* "annotation" stage and, when it went through, the return of the results
AnalyzeAnnotation ==
    /\ InAnalyze /\ pc = "annotation"
    /\ AnnotationStage(call.gse_id, AnalyzeOutputDir,
                       <<[line |-> "Analysis completed", gse_id |-> call.gse_id]>>)
    /\ IF exc' = None
       THEN /\ ret' = Return(analyze_result(call.gse_id, gse, metadata.v, filtered_metadata,
                                           supplementary_files, summary.v, annotation'.v,
                                           AnalyzeOutputDir))
            /\ pc' = "done"
       ELSE UNCHANGED ret
    /\ UNCHANGED <<metadata_df, call, gse, rename_vars, gse_pos, results, metadata,
                   filtered_metadata, supplementary_files, summary, batch_tally>>

\* the exception is caught and the workflow returns what it has
AnalyzeRaiseSwallowed ==
    /\ InAnalyze /\ pc = "except"
    /\ ret' = Return([gse_id |-> call.gse_id, output_directory |-> AnalyzeOutputDir])
    /\ exc' = None
    /\ pc' = "done"
    /\ UNCHANGED <<metadata_df, call, gse, rename_vars, gse_pos, results, workflow_locals,
                   disk, log, batch_tally>>

\* nothing in analyze_geo_dataset (nor in main) catches the exception of a
\* stage: it leaves the function
AnalyzeRaise ==
    /\ InAnalyze /\ pc = "except"
    /\ ret' = Raise(exc.v)
    /\ exc' = None
    /\ pc' = "done"
    /\ UNCHANGED <<metadata_df, call, gse, rename_vars, gse_pos, results, workflow_locals,
                   disk, log, batch_tally>>

SelectedColumns == {None, Some(<<"title">>), Some(<<"nonexistent">>)}

InitAnalyze ==
    /\ \E id \in DatasetIds \cup {"GSE404"}, ds \in BOOLEAN, fp \in FilterPatterns,
          fc \in {"title", "nonexistent"}, sc \in SelectedColumns :
          call = [op |-> "analyze_geo_dataset", gse_id |-> id,
                  download_supplementary |-> ds, filter_pattern |-> fp,
                  filter_column |-> fc, selected_columns |-> sc]
    /\ metadata_df = None
    /\ ret = None
    /\ gse = None
    /\ RenameIdle
    /\ pc = "download"
    /\ gse_pos = 0
    /\ results = EmptyDict
    /\ metadata = None
    /\ filtered_metadata = None
    /\ supplementary_files = <<>>
    /\ summary = None
    /\ annotation = None
    /\ exc = None
    /\ disk = {}
    /\ log = <<>>
    /\ batch_tally = None

NextAnalyze ==
    \/ AnalyzeDownload
    \/ AnalyzeExtract
    \/ AnalyzeSupplementary
    \/ AnalyzeFilter
    \/ AnalyzeSummary
    \/ AnalyzeAnnotation
    \/ AnalyzeRaise

SpecAnalyze == InitAnalyze /\ [][NextAnalyze]_vars

\* ----------------------------------------------------- claims on SpecTable
\* a is b with some positions removed (order kept)
IsSubSeq(a, b) ==
    \E f \in [1..Len(a) -> 1..Len(b)] :
        /\ \A i \in 1..Len(a) : b[f[i]] = a[i]
        /\ \A i, j \in 1..Len(a) : i < j => f[i] < f[j]

Occurrences(l, c) == Cardinality({i \in DOMAIN l : l[i] = c})

RECURSIVE SumCounts(_, _)
SumCounts(f, S) ==
    IF S = {} THEN 0
    ELSE LET x == CHOOSE x \in S : TRUE IN f[x] + SumCounts(f, S \ {x})

RowsWithValue(df, column) == {i \in DOMAIN df.rows : notna(df.rows[i].cells[column])}

\* C4: extract_metadata: found is the requested columns that exist, in
\* requested order, missing the requested columns that do not exist, the two
\* partition the request; with found non-empty the returned table has exactly
\* the columns found and every row and value of the original; with found
\* empty the original table comes back unchanged; nothing is raised.
C4_Select ==
    (call.op = "extract_metadata" /\ call.selected_columns.some) =>
        LET S == call.selected_columns.v
            T == metadata_df
            r == ret.value
            found == IF r.selected THEN r.available_cols ELSE <<>>
            missing == IF r.selected THEN r.missing_cols ELSE <<>>
        IN  /\ ~ret.raised
            /\ \A i \in DOMAIN found : found[i] \in Range(T.columns)
            /\ \A i \in DOMAIN missing : missing[i] \notin Range(T.columns)
            /\ IsSubSeq(found, S) /\ IsSubSeq(missing, S)
            /\ \A c \in Range(S) : Occurrences(found, c) + Occurrences(missing, c) = Occurrences(S, c)
            /\ Len(found) + Len(missing) = Len(S)
            /\ found # <<>> =>
                  /\ r.table.columns = found
                  /\ Len(r.table.rows) = Len(T.rows)
                  /\ \A i \in DOMAIN T.rows :
                        /\ r.table.rows[i].index = T.rows[i].index
                        /\ DOMAIN r.table.rows[i].cells = Range(found)
                        /\ \A c \in Range(found) :
                              r.table.rows[i].cells[c] = T.rows[i].cells[c]
            /\ found = <<>> => r.table = T

\* a request with a hit and a miss on a table with rows, and a request with
\* no hit at all, are both tried
C4_Witness ==
    /\ call.op = "extract_metadata" /\ call.selected_columns.some
    /\ call.selected_columns.v = <<"nonexistent", "title">>
    /\ ret.value.available_cols = <<"title">>
    /\ ret.value.missing_cols = <<"nonexistent">>
    /\ metadata_df.columns = <<"title", "source_name_ch1">>
    /\ Len(metadata_df.rows) = MaxRows

\* C5: a user-supplied column absent from the table makes both
\* filter_samples_by_criteria and get_unique_values raise a column-not-found
\* error that lists the columns available in the table.
C5_ColumnNotFoundListsAvailable ==
    \A column \in RequestedNames :
        ( /\ column \notin Range(metadata_df.columns)
          /\ \/ call.op = "filter_samples_by_criteria" /\ call.filter_column = column
             \/ call.op = "get_unique_values" /\ call.column = column ) =>
            /\ ret.raised
            /\ ret.error.type = "ValueError"
            /\ "available_cols" \in DOMAIN ret.error
            /\ ret.error.available_cols = metadata_df.columns

\* C6: filter_samples_by_criteria on an existing column (and a pattern that
\* compiles) returns exactly the rows, in original order, whose value in the
\* column is present and matches the pattern somewhere (ignoring case unless
\* case_sensitive); rows with a missing value are left out and raise
\* nothing; no match gives an empty table, not an error.
C6_Filter ==
    ( /\ call.op = "filter_samples_by_criteria"
      /\ call.filter_column \in Range(metadata_df.columns)
      /\ re_compiles(call.filter_pattern) ) =>
        LET T == metadata_df
            R == ret.value
            Wanted(i) == LET v == T.rows[i].cells[call.filter_column]
                         IN  /\ v # NaN
                             /\ re_search(call.filter_pattern, v.s, call.case_sensitive)
        IN  /\ ~ret.raised
            /\ R.columns = T.columns
            /\ IsSubSeq(R.rows, T.rows)
            /\ \A i \in DOMAIN T.rows : Wanted(i) <=> (\E j \in DOMAIN R.rows : R.rows[j] = T.rows[i])
            /\ Len(R.rows) = Cardinality({i \in DOMAIN T.rows : Wanted(i)})

\* a filter that keeps a row matching only when case is ignored and drops a
\* row with a missing value
C6_Witness ==
    /\ call.op = "filter_samples_by_criteria"
    /\ call.filter_column = "title" /\ call.filter_pattern = <<"a">> /\ ~call.case_sensitive
    /\ Len(metadata_df.rows) = 2
    /\ metadata_df.rows[1].cells["title"] = NaN
    /\ metadata_df.rows[2].cells["title"] = Str(<<"A", "b">>)
    /\ ~ret.raised
    /\ Len(ret.value.rows) = 1

\* C7: the counts of get_unique_values on an existing column sum to the
\* number of rows with a value in that column; a missing value is counted
\* nowhere and is no category.
C7_Distribution ==
    (call.op = "get_unique_values" /\ call.column \in Range(metadata_df.columns)) =>
        /\ ~ret.raised
        /\ SumCounts(ret.value, DOMAIN ret.value)
              = Cardinality(RowsWithValue(metadata_df, call.column))
        /\ NaN \notin DOMAIN ret.value
        /\ \A v \in DOMAIN ret.value : ret.value[v] >= 1

\* a column with one missing and one present value is counted
C7_Witness ==
    /\ call.op = "get_unique_values" /\ call.column = "title"
    /\ Len(metadata_df.rows) = 2
    /\ metadata_df.rows[1].cells["title"] = NaN
    /\ metadata_df.rows[2].cells["title"] = Str(<<>>)
    /\ ~ret.raised
    /\ SumCounts(ret.value, DOMAIN ret.value) = 1

\* ---------------------------------------------------- claims on SpecRename
\* the row the last iteration worked on
LastRow == metadata_df.rows[row_i - 1]

IdentifierMissingOrBlank(row) ==
    \/ "source_name_ch1" \notin Range(metadata_df.columns)
    \/ row.cells["source_name_ch1"] = NaN
    \/ row.cells["source_name_ch1"] = Str(<<>>)

\* C8: rename_supplementary_files: a row whose identifier column is missing
\* from the table, has no value or has a blank value gets its accession as
\* identifier, so its file is renamed to <accession>-<original filename>.
C8_IdentifierFallback ==
    ( /\ call.op = "rename_supplementary_files"
      /\ row_locals.some
      /\ row_locals.v.outcome = "renamed"
      /\ IdentifierMissingOrBlank(LastRow) ) =>
        /\ row_locals.v.identifier = Accession(LastRow.index)
        /\ row_locals.v.new_filename
              = Accession(LastRow.index) \o <<"-">> \o row_locals.v.original_filename
        /\ row_locals.v.new_filename \in DOMAIN output_files

\* the part of C8 the code does keep: identifier column missing or value NaN
C8_FallbackWhenAbsent ==
    ( /\ call.op = "rename_supplementary_files"
      /\ row_locals.some
      /\ "identifier" \in DOMAIN row_locals.v
      /\ \/ "source_name_ch1" \notin Range(metadata_df.columns)
         \/ LastRow.cells["source_name_ch1"] = NaN ) =>
        row_locals.v.identifier = Accession(LastRow.index)

\* --------------------------------------------------- claims on SpecSummary
\* C10: generate_dataset_summary sets every descriptive field the source has
\* no value for (key missing, or key present with an empty value list) to
\* "N/A", and never fails because a descriptive field is missing.
C10_DescriptiveFieldsDefault ==
    ( /\ call.op = "generate_dataset_summary"
      /\ \A p \in DOMAIN gse.gpls : \A f \in DOMAIN gse.gpls[p].metadata :
            gse.gpls[p].metadata[f] # <<>> ) =>
        /\ ~ret.raised
        /\ \A f \in Range(DescriptiveFields) :
              (f \notin DOMAIN gse.metadata \/ gse.metadata[f] = <<>>) =>
                  ret.value[f] = "N/A"

\* the part of C10 the code does keep: a missing key gives "N/A"
C10_MissingKeyDefault ==
    (call.op = "generate_dataset_summary" /\ ~ret.raised) =>
        \A f \in Range(DescriptiveFields) :
            f \notin DOMAIN gse.metadata => ret.value[f] = "N/A"

\* ----------------------------------------------------- claims on SpecBatch
\* the per-dataset closing lines of the log, one per finished iteration
ProcessedLines ==
    SelectSeq(log, LAMBDA l : l.line \in {"Successfully processed", "Error processing"})

LastPosition(lines, id) ==
    CHOOSE k \in DOMAIN lines :
        /\ lines[k].gse_id = id
        /\ \A j \in DOMAIN lines : lines[j].gse_id = id => j <= k

C1_Inv ==
    InBatch =>
        /\ ret = None \/ ~ret.raised
        /\ Len(ProcessedLines) = gse_pos - 1
        /\ \A k \in DOMAIN ProcessedLines : ProcessedLines[k].gse_id = call.gse_ids[k]
        /\ DOMAIN results = {call.gse_ids[k] : k \in 1..(gse_pos - 1)}
        /\ \A k \in DOMAIN ProcessedLines :
              LET l == ProcessedLines[k] IN
              (l.line = "Error processing" /\ LastPosition(ProcessedLines, l.gse_id) = k) =>
                  results[l.gse_id] = [status |-> "error", error |-> l.error]
        /\ pc = "done" => gse_pos = Len(call.gse_ids) + 1

C1_Step ==
    (InBatch /\ pc = "except") =>
        /\ exc.some
        /\ CurrentId \in DOMAIN results'
        /\ results'[CurrentId] = [status |-> "error", error |-> exc.v]
        /\ \A id \in DOMAIN results \ {CurrentId} :
              id \in DOMAIN results' /\ results'[id] = results[id]
        /\ DOMAIN results' = DOMAIN results \cup {CurrentId}
        /\ gse_pos' = gse_pos + 1
        /\ pc' = "download"
        /\ ret' = ret

\* C1: process_multiple_datasets: an exception raised by a stage of the
\* dataset at position k (fetch, metadata export, summary, annotation export)
\* is caught: the result stored for that id is the error result carrying the
\* exception, no other id's result changes, the loop goes on with position
\* k + 1, and at the end every position has been processed and every id has
\* a result; the batch itself never raises.
C1_FailureIsolation == []C1_Inv /\ [][C1_Step]_vars

\* a batch in which the first dataset failed in its summary stage and the
\* second one went through
C1_Witness ==
    /\ InBatch /\ pc = "done"
    /\ call.gse_ids = <<"GSE3", "GSE1">>
    /\ results["GSE3"] = [status |-> "error", error |-> [type |-> "IndexError"]]
    /\ results["GSE1"].status = "success"

\* C2: after process_multiple_datasets, for any list of ids (repeated ids
\* included), the success count plus the failure count equals the number of
\* ids given.
C2_TallyAccountsForEveryId ==
    (InBatch /\ batch_tally.some) =>
        batch_tally.v.successful + batch_tally.v.failed = Len(call.gse_ids)

\* the tally does account for every distinct id
C2_TallyCountsDistinctIds ==
    (InBatch /\ batch_tally.some) =>
        batch_tally.v.successful + batch_tally.v.failed
            = Cardinality(Range(call.gse_ids))

SuccessKeys ==
    {"status", "gse_object", "metadata", "filtered_metadata", "supplementary_files",
     "summary", "output_directory"}

LogHas(text) == \E i \in DOMAIN log : log[i].line = text

ErrorLines == {i \in DOMAIN log : "error" \in DOMAIN log[i]}

\* C9 as stated: in analyze_geo_dataset any error raised by a stage, a bad
\* filter column or a bad filter pattern included, surfaces to the caller:
\* no normal result is returned after such an error.
C9_AnyErrorSurfaces ==
    (InAnalyze /\ pc = "done" /\ ErrorLines # {}) => ret.raised

C9_Inv ==
    InAnalyze =>
        /\ (pc = "done" /\ ~ret.raised) =>
              /\ \A i \in ErrorLines : log[i].line = "Error filtering samples"
              /\ LogHas("Successfully downloaded") /\ LogHas("Metadata saved")
              /\ LogHas("Summary saved") /\ LogHas("Sample annotation saved")
              /\ {File(AnalyzeOutputDir, <<call.gse_id, "_metadata.tsv">>),
                   File(AnalyzeOutputDir, <<call.gse_id, "_summary.json">>),
                   File(AnalyzeOutputDir, <<call.gse_id, "_sample_annotation.tsv">>)}
                     \subseteq disk
              /\ ret.value.summary = generate_dataset_summary(gse, ret.value.metadata).value
              /\ ret.value.annotation = create_sample_annotation(ret.value.metadata)
              /\ LogHas("Error filtering samples") =>
                    \/ ret.value.filtered_metadata = None
                    \/ log[CHOOSE i \in ErrorLines : TRUE].error.type = "OSError"
        /\ (pc = "done" /\ ret.raised) =>
              /\ ret.error.type \in {"DownloadError", "IndexError", "OSError"}
              /\ ~LogHas("Analysis completed")
        /\ (LogHas("Error filtering samples") /\ pc # "done") => pc \notin {"download", "extract"}
        /\ exc.some <=> pc = "except"

C9_Step ==
    (InAnalyze /\ pc = "except") => (ret' = Raise(exc.v) /\ pc' = "done")

\* C9 (amended): in analyze_geo_dataset an exception raised by the download,
\* metadata export, summary or annotation stage leaves the workflow (the
\* caller gets the exception, never a result); an error of the optional
\* filter stage (bad filter column, bad pattern, failed export) is caught
\* and logged and the workflow still runs its remaining stages and returns a
\* normal result.
C9_StageErrorsSurfaceExceptFilter == []C9_Inv /\ [][C9_Step]_vars

\* a normal return after a filter on a column the table does not have
C9_Witness ==
    /\ InAnalyze /\ pc = "done" /\ ~ret.raised
    /\ call.filter_column = "nonexistent" /\ call.filter_pattern = Some(<<"a">>)
    /\ \E i \in ErrorLines :
          /\ log[i].line = "Error filtering samples"
          /\ log[i].error.type = "ValueError"
    /\ ret.value.filtered_metadata = None


\* ------------------------------------------------------------------- C11
IsWhitespace(c) == c \in {" ", "\t", "\n"}

IsPathSeparator(c) == c \in {"/", "\\"}

\* s with every run of whitespace and every path separator replaced by one "_"
RECURSIVE Underscored(_, _)
Underscored(s, i) ==
    IF i > Len(s) THEN <<>>
    ELSE IF IsWhitespace(s[i]) /\ i > 1 /\ IsWhitespace(s[i - 1])
         THEN Underscored(s, i + 1)
         ELSE <<IF IsWhitespace(s[i]) \/ IsPathSeparator(s[i]) THEN "_" ELSE s[i]>>
                \o Underscored(s, i + 1)

IdentifierValuePresent ==
    /\ row_locals.some
    /\ "identifier" \in DOMAIN row_locals.v
    /\ call.identifier_column \in Range(metadata_df.columns)
    /\ notna(LastRow.cells[call.identifier_column])

\* C11: when the identifier column has a value, the identifier of the row is
\* that value with every run of whitespace and every path separator replaced
\* by a single underscore, so it contains neither whitespace nor a path
\* separator, and the new filename is identifier, "-", original filename.
C11_IdentifierSanitized ==
    (IdentifierValuePresent /\ row_locals.v.outcome = "renamed") =>
        /\ row_locals.v.identifier = Underscored(LastRow.cells[call.identifier_column].s, 1)
        /\ \A i \in DOMAIN row_locals.v.identifier :
                /\ ~IsWhitespace(row_locals.v.identifier[i])
                /\ ~IsPathSeparator(row_locals.v.identifier[i])
        /\ row_locals.v.new_filename
                = row_locals.v.identifier \o <<"-">> \o row_locals.v.original_filename

\* what the code does guarantee: no space and no "/" is left, the length is
\* kept, and the new filename has the stated shape
C11_SpacesAndSlashesReplaced ==
    IdentifierValuePresent =>
        /\ Len(row_locals.v.identifier) = Len(LastRow.cells[call.identifier_column].s)
        /\ \A i \in DOMAIN row_locals.v.identifier :
                row_locals.v.identifier[i] \notin {" ", "/"}
        /\ "new_filename" \in DOMAIN row_locals.v =>
                row_locals.v.new_filename
                    = row_locals.v.identifier \o <<"-">> \o row_locals.v.original_filename


\* ------------------------------------------------------------------- C12
\* the rows whose file was copied: one "Renamed" line is logged for each
CopiedRows == {i \in DOMAIN log : log[i].line = "Renamed"}

\* C12: when rename_supplementary_files has returned, the mapping has exactly
\* one entry per row whose file was copied: the number of entries equals the
\* number of copied rows.
C12_OneEntryPerCopiedRow ==
    (call.op = "rename_supplementary_files" /\ ret # None) =>
        /\ ~ret.raised
        /\ Cardinality(DOMAIN ret.value) = Cardinality(CopiedRows)

\* what the code does guarantee: an entry for every original filename that was
\* copied and for nothing else, so never more entries than copied rows, and a
\* row without a URL or without a local copy leaves the mapping as it was
C12_EntriesAreCopiedNames ==
    call.op = "rename_supplementary_files" =>
        /\ DOMAIN renamed_files = {log[i].original_filename : i \in CopiedRows}
        /\ Cardinality(DOMAIN renamed_files) <= Cardinality(CopiedRows)

C12_NoEntryWithoutUrlOrCopy ==
    [][(call.op = "rename_supplementary_files" /\ row_locals'.some
            /\ row_locals'.v.outcome \in {"no_url", "not_found"})
        => renamed_files' = renamed_files]_vars


\* ------------------------------------------------------------------- C13
\* the call never raises, and it returns only after the loop has gone through
\* every row, whatever happened in the rows before
C13_NeverAborts ==
    call.op = "rename_supplementary_files" =>
        /\ ret # None => (~ret.raised /\ row_i = Len(metadata_df.rows) + 1)
        /\ row_locals.some => row_locals.v.index = row_i - 1

C13_EveryRowIsATurn ==
    [][(call.op = "rename_supplementary_files" /\ row_i >= 1 /\ row_i' # row_i)
        => (row_i' = row_i + 1 /\ row_locals'.some /\ row_locals'.v.index = row_i)]_vars

\* C13: a failing row (missing accession field, missing identifier, copy error)
\* never aborts rename_supplementary_files: every later row is still processed,
\* every row still yields some identifier, and the call returns the mapping
\* instead of raising.
C13_RowFailureIsolated ==
    /\ C13_NeverAborts
    /\ (call.op = "rename_supplementary_files" /\ row_locals.some)
            => "identifier" \in DOMAIN row_locals.v


\* ------------------------------------------------------------------- C14
C14_Inv ==
    call.op = "rename_supplementary_files" =>
        \A original_filename \in DOMAIN renamed_files :
            /\ renamed_files[original_filename] \in DOMAIN output_files
            /\ output_files[renamed_files[original_filename]] = original_filename

C14_Step ==
    (call.op = "rename_supplementary_files" /\ row_locals'.some /\ row_i' # row_i /\ row_i >= 1)
        => IF row_locals'.v.outcome = "renamed"
           THEN /\ row_locals'.v.new_filename \in DOMAIN output_files'
                /\ renamed_files'[row_locals'.v.original_filename] = row_locals'.v.new_filename
           ELSE /\ renamed_files' = renamed_files
                /\ output_files' = output_files

UrlColumns ==
    {j \in DOMAIN metadata_df.columns :
        /\ contains_supplementary_file(metadata_df.columns[j])
        /\ ~LastRow.cells[metadata_df.columns[j]].na}

\* name is what follows the last "/" of url (url itself when it has none)
IsFinalSegment(name, url) ==
    /\ \A i \in DOMAIN name : name[i] # "/"
    /\ Len(name) <= Len(url)
    /\ SubSeq(url, Len(url) - Len(name) + 1, Len(url)) = name
    /\ Len(name) < Len(url) => url[Len(url) - Len(name)] = "/"

C15_Inv ==
    (call.op = "rename_supplementary_files" /\ row_locals.some
        /\ "supp_file_url" \in DOMAIN row_locals.v) =>
        /\ IF UrlColumns = {}
           THEN /\ row_locals.v.supp_file_url = None
                /\ row_locals.v.outcome = "no_url"
           ELSE \E j \in UrlColumns :
                    /\ \A k \in UrlColumns : j <= k
                    /\ row_locals.v.supp_file_url
                            = Some(LastRow.cells[metadata_df.columns[j]].s)
        /\ "original_filename" \in DOMAIN row_locals.v =>
                IsFinalSegment(row_locals.v.original_filename, row_locals.v.supp_file_url.v)

C15_Step ==
    (call.op = "rename_supplementary_files" /\ row_i >= 1 /\ row_i' # row_i
        /\ row_locals'.v.outcome = "no_url")
        => (log' = log /\ renamed_files' = renamed_files /\ output_files' = output_files)

\* C15: the supplementary file URL of a row is the value of the first column,
\* in column order, whose name contains "supplementary_file" and whose value is
\* present; columns with absent values are passed over; a row without such a
\* column is skipped without error; the original filename is the final path
\* segment of the URL.
C15_FirstPresentSupplementaryColumn == []C15_Inv /\ [][C15_Step]_vars

\* the first supplementary_file column is absent and the URL comes from the next
C15_Witness ==
    /\ call.op = "rename_supplementary_files"
    /\ row_locals.some
    /\ "original_filename" \in DOMAIN row_locals.v
    /\ \E j \in DOMAIN metadata_df.columns :
            /\ contains_supplementary_file(metadata_df.columns[j])
            /\ LastRow.cells[metadata_df.columns[j]].na
            /\ \E k \in UrlColumns : k > j


\* ------------------------------------------------------------------- C16
\* the log of the dataset being processed (or just processed) starts at the
\* last "Processing dataset" line
SegmentStart ==
    CHOOSE i \in DOMAIN log :
        /\ log[i].line = "Processing dataset"
        /\ \A j \in DOMAIN log : log[j].line = "Processing dataset" => j <= i

FilterFailedInSegment ==
    /\ InBatch
    /\ \E i \in DOMAIN log : log[i].line = "Processing dataset"
    /\ \E i \in DOMAIN log : i > SegmentStart /\ log[i].line = "Error filtering samples"

FilterColumnAbsent ==
    /\ InBatch
    /\ pc \in {"summary", "annotation"}
    /\ truthy(call.filter_pattern)
    /\ call.filter_column \notin Range(metadata.v.columns)

\* C16: in process_multiple_datasets a failure of the filter stage (absent
\* filter column, invalid pattern, an exception while filtering or exporting)
\* never fails the dataset: the summary stage runs next, and the result of a
\* dataset that goes through is Success with no filtered table.
C16_FilterFailureLeavesNoFilteredTable ==
    /\ (FilterFailedInSegment \/ FilterColumnAbsent) =>
          /\ pc \in {"summary", "annotation"} => (exc = None /\ filtered_metadata = None)
          /\ log[Len(log)].line = "Successfully processed" =>
                /\ results[log[Len(log)].gse_id].status = "success"
                /\ results[log[Len(log)].gse_id].filtered_metadata = None
    /\ InBatch =>
          \A i \in DOMAIN log :
              (log[i].line = "Error filtering samples" /\ i < Len(log)) =>
                  log[i + 1].line = "Generating dataset summary"

\* what the code does guarantee: the dataset is not failed by the filter stage
\* and the summary stage runs next; the filtered table is dropped when the
\* filter call itself raised or was not made
C16_FilterFailureNeverFailsDataset ==
    /\ (FilterFailedInSegment \/ FilterColumnAbsent) =>
          /\ pc \in {"summary", "annotation"} => exc = None
          /\ log[Len(log)].line = "Successfully processed" =>
                results[log[Len(log)].gse_id].status = "success"
          /\ (pc \in {"summary", "annotation"} /\ filtered_metadata # None) =>
                \E i \in DOMAIN log :
                    /\ i > SegmentStart
                    /\ log[i].line = "Error filtering samples"
                    /\ log[i].error = [type |-> "OSError"]
    /\ InBatch =>
          \A i \in DOMAIN log :
              (log[i].line = "Error filtering samples" /\ i < Len(log)) =>
                  log[i + 1].line = "Generating dataset summary"


\* ------------------------------------------------------------------- C17
\* the stage a log line belongs to: 0 opens a dataset, 1..6 are fetch, export
\* metadata, supplementary, filter, summary, annotation, 7 closes the dataset
StageRank(text) ==
    CASE text = "Processing dataset" -> 0
      [] text \in {"Downloading GEO dataset", "Successfully downloaded", "Error downloading"} -> 1
      [] text \in {"Extracting metadata", "Metadata saved"} -> 2
      [] text \in {"No supplementary files available", "Downloading supplementary files"} -> 3
      [] text \in {"Filtering samples", "Error filtering samples"} -> 4
      [] text \in {"Generating dataset summary", "Summary saved"} -> 5
      [] text \in {"Creating sample annotation", "Sample annotation saved"} -> 6
      [] text \in {"Successfully processed", "Error processing"} -> 7
      [] OTHER -> 8

\* the line that starts a stage and the line that says it finished
StageStart == [k \in {1, 2, 5, 6} |->
    CASE k = 1 -> "Downloading GEO dataset" [] k = 2 -> "Extracting metadata"
      [] k = 5 -> "Generating dataset summary" [] k = 6 -> "Creating sample annotation"]

StageDone == [k \in {1, 2, 5, 6} |->
    CASE k = 1 -> "Successfully downloaded" [] k = 2 -> "Metadata saved"
      [] k = 5 -> "Summary saved" [] k = 6 -> "Sample annotation saved"]

\* the stage whose finishing a line of stage k needs: the last mandatory stage before k
StageBefore == [k \in 2..7 |-> CASE k = 2 -> 1 [] k \in {3, 4, 5} -> 2 [] k = 6 -> 5 [] k = 7 -> 6]

StageOfPc ==
    [p \in {"download", "extract", "supplementary", "filter", "summary", "annotation"} |->
        CASE p = "download" -> 1 [] p = "extract" -> 2 [] p = "supplementary" -> 3
          [] p = "filter" -> 4 [] p = "summary" -> 5 [] p = "annotation" -> 6]

C17_Inv ==
    InBatch =>
        /\ \A i \in DOMAIN log : i < Len(log) =>
            LET a == log[i].line
                b == log[i + 1].line
            IN  \* a dataset is opened only after the one before was closed
                /\ StageRank(b) = 0 => StageRank(a) = 7
                /\ StageRank(a) = 7 => StageRank(b) \in {0, 8}
                \* within a dataset the stages come in order, each at most once
                /\ StageRank(b) # 0 => StageRank(a) <= StageRank(b)
                /\ (StageRank(b) \in DOMAIN StageStart /\ b = StageStart[StageRank(b)])
                        => StageRank(a) < StageRank(b)
                \* a stage starts, and the dataset is closed as processed,
                \* only after the mandatory stage before it finished
                /\ (StageRank(b) \in 2..6 /\ StageRank(a) # StageRank(b))
                        => \/ a = StageDone[StageBefore[StageRank(b)]]
                           \/ /\ StageRank(a) \in {3, 4}
                              /\ StageRank(b) \in {4, 5}
                /\ b = "Successfully processed" => a = StageDone[6]
                \* after a stage that did not finish nothing runs but the closing
                /\ (StageRank(a) \in DOMAIN StageStart /\ a = StageStart[StageRank(a)])
                        => \/ b = StageDone[StageRank(a)]
                           \/ b = "Error processing"
                           \/ b = "Error downloading"
                /\ a = "Error downloading" => b = "Error processing"
        \* a dataset is fetched when nothing is open; a later stage is reached
        \* when only earlier stages of this dataset have run
        /\ pc = "download" => (log = <<>> \/ StageRank(log[Len(log)].line) = 7)
        /\ pc \in DOMAIN StageOfPc \ {"download"} =>
                \A i \in DOMAIN log :
                    (\A j \in DOMAIN log : StageRank(log[j].line) = 0 => j <= i)
                        => StageRank(log[i].line) < StageOfPc[pc]

C17_Step ==
    InBatch =>
        /\ (pc' # pc /\ pc \in DOMAIN StageOfPc /\ pc' \in DOMAIN StageOfPc /\ gse_pos' = gse_pos)
                => (StageOfPc[pc'] = StageOfPc[pc] + 1 /\ exc' = None)
        /\ (pc' = "except" /\ pc # "except") => (exc'.some /\ pc # "filter")
        /\ gse_pos' # gse_pos =>
                /\ gse_pos' = gse_pos + 1
                /\ pc \in {"annotation", "except"}
                /\ pc' = "download"
                /\ CurrentId \in DOMAIN results'
                /\ results'[CurrentId].status
                        = (IF pc = "except" THEN "error" ELSE "success")
                /\ log'[Len(log')].gse_id = CurrentId
        /\ (pc = "download" /\ pc' = "download") => gse_pos' = gse_pos

\* C17: for every dataset process_multiple_datasets runs the stages strictly
\* in the order fetch, export metadata, supplementary files (optional), filter
\* (optional), summary, annotation: a stage starts only after the one before
\* finished, no stage runs after a stage other than the filter failed, and the
\* next dataset is fetched only after this dataset's result was recorded.
C17_StagesInOrder == []C17_Inv /\ [][C17_Step]_vars

\* a dataset that failed in its summary stage was followed by one that went
\* through every stage, the optional ones included
C17_Witness ==
    /\ InBatch /\ pc = "done"
    /\ call.gse_ids = <<"GSE3", "GSE1">>
    /\ results["GSE3"] = [status |-> "error", error |-> [type |-> "IndexError"]]
    /\ results["GSE1"].status = "success"
    /\ \E i \in DOMAIN log : log[i].line = "Downloading supplementary files"
    /\ \E i \in DOMAIN log : log[i].line = "Filtering samples"

====
